---- MODULE Spec2Model ----
(***************************************************************************)
(* SimpleCache<K, V>: an in-memory cache with a capacity, per-entry and    *)
(* default TTL, an eviction policy (lru | fifo | random | none) and        *)
(* optional statistics.  The store is a JavaScript Map, modelled as the    *)
(* sequence of its entries in iteration (insertion) order.                 *)
(***************************************************************************)
EXTENDS Integers, Sequences, FiniteSets

VARIABLES
    store,          \* Map<K, CacheEntry<V>> as a sequence of [key, value, expiry]
    capacity,       \* this.capacity
    defaultTtl,     \* this.defaultTtl: <<>> (undefined) or <<ms>>
    evictionPolicy, \* this.evictionPolicy
    stats,          \* this.stats: the six counters
    statsEnabled,   \* this.statsEnabled
    now,            \* Date.now()
    last,           \* the last public call: its name, key, and what it returned
    recency,        \* history: stored keys, least recently used first
    arrival         \* history: stored keys, least recently set first

vars == <<store, capacity, defaultTtl, evictionPolicy, stats, statsEnabled,
          now, last, recency, arrival>>

config == <<capacity, defaultTtl, evictionPolicy>>

-----------------------------------------------------------------------------
(* Bounds of the model *)

MaxTime == 2
MaxTtl == 1
MaxCount == 3

Keys == {"a", "b"}
EvictKeys == {"a", "b", "c"}
Values == {"v1", "v2"}
EvictValues == {"v1"}
StatKeys == {"a", "b"}
StatValues == {"v1"}

\* a ttl argument: <<>> when omitted, else <<ms>>; a negative ttl is accepted by the code
TtlArgs == {<<>>} \cup {<<t>> : t \in (0 - 1)..MaxTtl}
ExpireArgs == 0..MaxTtl
StatTtlArgs == {<<>>, <<0>>}
ToggleExpireArgs == {0}

-----------------------------------------------------------------------------
(* Values of the program *)

\* a capacity is a JavaScript number: a finite number n, or Infinity, which no
\* size of the store exceeds
Finite(n) == [finite |-> TRUE, n |-> n]
Infinity == [finite |-> FALSE, n |-> 0]

\* size > cap, for a size of the store and a capacity
Exceeds(size, cap) == cap.finite /\ size > cap.n
Undefined == "undefined"
NoKey == "-"
Policies == {"lru", "fifo", "random", "none"}
StatNames == {"hits", "misses", "sets", "deletes", "evictions", "expires"}

ZeroStats == [s \in StatNames |-> 0]

-----------------------------------------------------------------------------
(* The Map the store is kept in *)

MapKeys(m) == [i \in 1..Len(m) |-> m[i].key]

MapHas(m, k) == \E i \in 1..Len(m) : m[i].key = k

MapIndex(m, k) == CHOOSE i \in 1..Len(m) : m[i].key = k

MapGet(m, k) == m[MapIndex(m, k)]

MapDelete(m, k) == SelectSeq(m, LAMBDA e : e.key # k)

\* Map.prototype.set: an existing key keeps its place, a new key goes last
MapSet(m, k, value, expiry) ==
    IF MapHas(m, k)
    THEN [m EXCEPT ![MapIndex(m, k)] = [key |-> k, value |-> value, expiry |-> expiry]]
    ELSE Append(m, [key |-> k, value |-> value, expiry |-> expiry])

KeySet(m) == {m[i].key : i \in 1..Len(m)}

-----------------------------------------------------------------------------
(* Private helpers of SimpleCache *)

\* isExpired(entry): entry.expiry !== undefined && Date.now() > entry.expiry
IsExpired(entry, t) == entry.expiry # <<>> /\ t > entry.expiry[1]

\* an expiry test that already fails the entry at its deadline
GetExpiredAtDeadline(entry, t) == entry.expiry # <<>> /\ t >= entry.expiry[1]

\* an expiry test on the truthiness of the expiry, as ttl() writes it
\* (entry.expiry && Date.now() > entry.expiry): an expiry of 0 never passes
GetExpiredFalsy(entry, t) ==
    entry.expiry # <<>> /\ entry.expiry[1] # 0 /\ t > entry.expiry[1]

\* the same test, written inline in get()
GetExpired(entry, t) == entry.expiry # <<>> /\ t > entry.expiry[1]

\* a recordStat that counts whether or not statistics are enabled
RecordStatAlways(st, stat) == [st EXCEPT ![stat] = @ + 1]

\* recordStat(stat): counts only while statistics are enabled
RecordStat(st, stat) ==
    IF statsEnabled THEN [st EXCEPT ![stat] = @ + 1] ELSE st

\* an expiry in which a configured default TTL wins over the ttl argument
SetExpiryDefaultFirst(ttl, t) ==
    IF defaultTtl # <<>> THEN <<t + defaultTtl[1]>>
    ELSE IF ttl # <<>> THEN <<t + ttl[1]>>
    ELSE <<>>

\* the expiry set() computes from its ttl argument and the default TTL
SetExpiry(ttl, t) ==
    IF ttl # <<>> THEN <<t + ttl[1]>>
    ELSE IF defaultTtl # <<>> THEN <<t + defaultTtl[1]>>
    ELSE <<>>

\* the victim of one round of the eviction loop, for lru and fifo:
\* this.store.keys().next().value, undefined on an empty store
FirstKey(m) == IF Len(m) = 0 THEN Undefined ELSE m[1].key

\* the victims the random policy can draw:
\* keys[Math.floor(Math.random() * keys.length)], undefined on an empty store
RandomKeys(m) == IF Len(m) = 0 THEN {Undefined} ELSE KeySet(m)

\* a loop condition that lets the store grow one entry past the capacity
OverCapacityOffByOne(m) == capacity.finite /\ Len(m) > capacity.n + 1

\* a loop condition that already evicts a store that is exactly full
OverCapacityAtFull(m) == capacity.finite /\ Len(m) >= capacity.n

\* a loop condition that enforces the capacity only while statistics are on
OverCapacityWhenCounting(m) == statsEnabled /\ Exceeds(Len(m), capacity)

\* the loop condition of evictIfNeeded
OverCapacity(m) == Exceeds(Len(m), capacity)

\* a policy none that falls through to the removal of the oldest key
EvictionNeverThrows == FALSE

\* an eviction that raises under every policy
EvictionAlwaysThrows == TRUE

\* case "none": throw new Error("Cache capacity reached")
EvictionThrows == evictionPolicy = "none"

\* an eviction loop that removes its victims without counting them
RECURSIVE EvictIfNeededUncounted(_, _)
EvictIfNeededUncounted(m, st) ==
    IF ~OverCapacity(m)
    THEN {[store |-> m, stats |-> st, status |-> "returned"]}
    ELSE IF EvictionThrows
    THEN {[store |-> m, stats |-> st, status |-> "threw"]}
    ELSE LET victims == IF evictionPolicy = "random"
                        THEN RandomKeys(m) ELSE {FirstKey(m)}
         IN  UNION { IF victim = Undefined
                     THEN {[store |-> m, stats |-> st, status |-> "looping"]}
                     ELSE EvictIfNeededUncounted(MapDelete(m, victim), st)
                     : victim \in victims }

\* evictIfNeeded(): every way the loop can end from store m and counters st.
\* status is "returned", "threw" (policy none) or "looping" (the store is
\* empty and still over capacity: no victim, the loop never ends).
RECURSIVE EvictIfNeeded(_, _)
EvictIfNeeded(m, st) ==
    IF ~OverCapacity(m)
    THEN {[store |-> m, stats |-> st, status |-> "returned"]}
    ELSE IF EvictionThrows
    THEN {[store |-> m, stats |-> st, status |-> "threw"]}
    ELSE LET victims == IF evictionPolicy = "random"
                        THEN RandomKeys(m) ELSE {FirstKey(m)}
         IN  UNION { IF victim = Undefined
                     THEN {[store |-> m, stats |-> st, status |-> "looping"]}
                     ELSE EvictIfNeeded(MapDelete(m, victim),
                                        RecordStat(st, "evictions"))
                     : victim \in victims }

-----------------------------------------------------------------------------
(* The public methods, as functions of the state they read *)

\* a set that overwrites in place, without the delete that refreshes recency
SetInsertInPlace(m, k, v, expiry) == MapSet(m, k, v, expiry)

\* set(key, value, ttl): delete-then-set, count, then enforce capacity
SetInsert(m, k, v, expiry) ==
    MapSet(IF MapHas(m, k) THEN MapDelete(m, k) ELSE m, k, v, expiry)

\* a set that counts only the keys it adds, not the overwrites
SetOutcomesCountNew(m, st, k, v, ttl, t) ==
    EvictIfNeeded(SetInsert(m, k, v, SetExpiry(ttl, t)),
                  IF MapHas(m, k) THEN st ELSE RecordStat(st, "sets"))

SetOutcomes(m, st, k, v, ttl, t) ==
    EvictIfNeeded(SetInsert(m, k, v, SetExpiry(ttl, t)), RecordStat(st, "sets"))

\* a get that never moves the entry
GetRefreshNever(m, k) == m

\* a get that moves the entry to the end under every policy
GetRefreshAlways(m, k) ==
    LET entry == MapGet(m, k)
    IN  MapSet(MapDelete(m, k), k, entry.value, entry.expiry)

\* get(key): under lru a hit moves the entry to the end of the Map
GetRefresh(m, k) ==
    IF evictionPolicy = "lru"
    THEN LET entry == MapGet(m, k)
         IN  MapSet(MapDelete(m, k), k, entry.value, entry.expiry)
    ELSE m

\* a get that drops an expired entry without counting the expiry
GetOutcomeExpiryUncounted(m, st, k, t) ==
    IF ~MapHas(m, k)
    THEN [store |-> m, stats |-> RecordStat(st, "misses"), value |-> Undefined]
    ELSE IF GetExpired(MapGet(m, k), t)
    THEN [store |-> MapDelete(m, k),
          stats |-> RecordStat(st, "misses"),
          value |-> Undefined]
    ELSE [store |-> GetRefresh(m, k),
          stats |-> RecordStat(st, "hits"),
          value |-> MapGet(m, k).value]

\* a get that counts the read of an expired entry as a hit
GetOutcomeExpiredAsHit(m, st, k, t) ==
    IF ~MapHas(m, k)
    THEN [store |-> m, stats |-> RecordStat(st, "misses"), value |-> Undefined]
    ELSE IF GetExpired(MapGet(m, k), t)
    THEN [store |-> MapDelete(m, k),
          stats |-> RecordStat(RecordStat(st, "expires"), "hits"),
          value |-> Undefined]
    ELSE [store |-> GetRefresh(m, k),
          stats |-> RecordStat(st, "hits"),
          value |-> MapGet(m, k).value]

\* get(key): miss, expired (delete, count expires and misses) or hit
GetOutcome(m, st, k, t) ==
    IF ~MapHas(m, k)
    THEN [store |-> m, stats |-> RecordStat(st, "misses"), value |-> Undefined]
    ELSE IF GetExpired(MapGet(m, k), t)
    THEN [store |-> MapDelete(m, k),
          stats |-> RecordStat(RecordStat(st, "expires"), "misses"),
          value |-> Undefined]
    ELSE [store |-> GetRefresh(m, k),
          stats |-> RecordStat(st, "hits"),
          value |-> MapGet(m, k).value]

\* a has that refreshes the recency of a live key as get does
HasOutcomeRefreshes(m, st, k, t) ==
    IF ~MapHas(m, k)
    THEN [store |-> m, stats |-> st, ok |-> FALSE]
    ELSE IF IsExpired(MapGet(m, k), t)
    THEN [store |-> MapDelete(m, k), stats |-> RecordStat(st, "expires"), ok |-> FALSE]
    ELSE [store |-> GetRefresh(m, k), stats |-> st, ok |-> TRUE]

\* has(key)
HasOutcome(m, st, k, t) ==
    IF ~MapHas(m, k)
    THEN [store |-> m, stats |-> st, ok |-> FALSE]
    ELSE IF IsExpired(MapGet(m, k), t)
    THEN [store |-> MapDelete(m, k), stats |-> RecordStat(st, "expires"), ok |-> FALSE]
    ELSE [store |-> m, stats |-> st, ok |-> TRUE]

\* a delete that counts every call, whether or not it removed an entry
DeleteOutcomeCountsCalls(m, st, k) ==
    [store |-> MapDelete(m, k), stats |-> RecordStat(st, "deletes"), ok |-> MapHas(m, k)]

\* delete(key)
DeleteOutcome(m, st, k) ==
    IF MapHas(m, k)
    THEN [store |-> MapDelete(m, k), stats |-> RecordStat(st, "deletes"), ok |-> TRUE]
    ELSE [store |-> m, stats |-> st, ok |-> FALSE]

\* a ttl that answers for a missing key as for a key without expiry
TtlResultAbsentAsNoExpiry(m, k, t) ==
    IF ~MapHas(m, k) THEN 0 - 1
    ELSE LET entry == MapGet(m, k)
         IN  IF entry.expiry = <<>> \/ entry.expiry[1] = 0 THEN 0 - 1
             ELSE IF entry.expiry[1] - t > 0 THEN entry.expiry[1] - t ELSE 0

\* ttl(key): -2 no key, -1 no expiry (!entry.expiry: undefined or 0), else remaining ms
TtlResult(m, k, t) ==
    IF ~MapHas(m, k) THEN 0 - 2
    ELSE LET entry == MapGet(m, k)
         IN  IF entry.expiry = <<>> \/ entry.expiry[1] = 0 THEN 0 - 1
             ELSE IF entry.expiry[1] - t > 0 THEN entry.expiry[1] - t ELSE 0

\* expire(key, ttl) and persist(key) assign entry.expiry in place
SetEntryExpiry(m, k, expiry) ==
    [m EXCEPT ![MapIndex(m, k)].expiry = expiry]

\* an expire that re-inserts the entry at the end of the Map
ExpireOutcomeRefreshes(m, k, ttl, t) ==
    IF MapHas(m, k)
    THEN [store |-> MapSet(MapDelete(m, k), k, MapGet(m, k).value, <<t + ttl>>),
          ok |-> TRUE]
    ELSE [store |-> m, ok |-> FALSE]

ExpireOutcome(m, k, ttl, t) ==
    IF MapHas(m, k)
    THEN [store |-> SetEntryExpiry(m, k, <<t + ttl>>), ok |-> TRUE]
    ELSE [store |-> m, ok |-> FALSE]

\* a persist that reports success and leaves the expiry in place
PersistOutcomeKeepsExpiry(m, k) == [store |-> m, ok |-> MapHas(m, k)]

PersistOutcome(m, k) ==
    IF MapHas(m, k)
    THEN [store |-> SetEntryExpiry(m, k, <<>>), ok |-> TRUE]
    ELSE [store |-> m, ok |-> FALSE]

\* a clear that resets the counters whether or not statistics are enabled
ClearStatsAlways(st) == ZeroStats

\* clear(): resets the counters only while statistics are enabled
ClearStats(st) == IF statsEnabled THEN ZeroStats ELSE st

\* JavaScript numbers are IEEE 754 doubles: a significand of 53 bits and a
\* power of two. The rates are computed on them, so the significands are kept
\* whole, as sequences of digits to the base 2^13, least significant first
\* (four digits are 52 bits), and a double is [m |-> significand, e |-> e]
\* for the number m / 2^e.
Base == 8192

\* a * k + c, for digits a and numbers k, c below 2^17
RECURSIVE MulAdd(_, _, _)
MulAdd(a, k, c) ==
    IF a = <<>>
    THEN IF c = 0 THEN <<>> ELSE <<c % Base>> \o MulAdd(<<>>, k, c \div Base)
    ELSE LET t == Head(a) * k + c
         IN  <<t % Base>> \o MulAdd(Tail(a), k, t \div Base)

\* a divided by k, for digits a and a number k below 2^17: quotient, remainder
RECURSIVE DivSmall(_, _)
DivSmall(a, k) ==
    IF a = <<>>
    THEN [quot |-> <<>>, rem |-> 0]
    ELSE LET hi == DivSmall(Tail(a), k)
             t == hi.rem * Base + Head(a)
         IN  [quot |-> <<t \div k>> \o hi.quot, rem |-> t % k]

\* the number the digits a stand for, when it is small
RECURSIVE ToNat(_)
ToNat(a) == IF a = <<>> THEN 0 ELSE Head(a) + Base * ToNat(Tail(a))

\* a divided by 2^n, rounded down
ShiftRight(a, n) ==
    IF n \div 13 >= Len(a)
    THEN <<>>
    ELSE DivSmall(SubSeq(a, n \div 13 + 1, Len(a)), 2 ^ (n % 13)).quot

\* the significand a or the next one: round to nearest, ties to even, given
\* what was cut off (rem) as a fraction of unit
RoundToEven(a, rem, unit) ==
    IF 2 * rem > unit \/ (2 * rem = unit /\ Head(a) % 2 = 1)
    THEN MulAdd(a, 1, 1)
    ELSE a

\* x doubled until it reaches total: y = x * 2^d with total <= y < 2 * total
RECURSIVE Scaled(_, _)
Scaled(x, total) ==
    IF x >= total
    THEN [y |-> x, d |-> 0]
    ELSE LET s == Scaled(2 * x, total) IN [y |-> s.y, d |-> s.d + 1]

\* the fraction of y * 2^(13 * k) / total: k digits of the quotient below the
\* leading one, and the remainder
RECURSIVE Fraction(_, _, _)
Fraction(r, total, k) ==
    IF k = 0
    THEN [digits |-> <<>>, rem |-> r]
    ELSE LET low == Fraction((r * Base) % total, total, k - 1)
         IN  [digits |-> low.digits \o <<(r * Base) \div total>>,
              rem |-> low.rem]

\* x / total for integers 0 < x <= total < 2^17: the double nearest to the
\* quotient, with the 53 bits of floor(x * 2^(52 + d) / total) rounded to even
Divide(x, total) ==
    LET s == Scaled(x, total)
        f == Fraction(s.y % total, total, 4)
    IN  [m |-> RoundToEven(f.digits \o <<s.y \div total>>, f.rem, total),
         e |-> 52 + s.d]

\* q * 100 for a double q with a significand of 53 bits: the product has 59 or
\* 60 bits (60 when it reaches 2^59, its fifth digit 2^7) and is rounded to
\* even at 53
Times100(q) ==
    LET product == MulAdd(q.m, 100, 0)
        cut == IF product[5] < 128 THEN 6 ELSE 7
        kept == DivSmall(product, 2 ^ cut)
    IN  [m |-> RoundToEven(kept.quot, kept.rem, 2 ^ cut), e |-> q.e - cut]

\* p.toFixed(2), then Number(): the integer n for which n / 100 - p is closest
\* to zero, the larger n when there are two, n = floor((floor(200 * p) + 1) / 2).
\* The digits of n are the decimal string, and Number() reads it back as the
\* double nearest to n / 100, which the model writes as n hundredths.
ToFixed2(p) ==
    (ToNat(ShiftRight(MulAdd(p.m, 200, 0), p.e)) + 1) \div 2

\* a rate that drops the digits after the second decimal instead of rounding
PercentTruncated(x, total) ==
    IF total = 0 THEN 0 ELSE (x * 10000) \div total

\* Number(((x / total) * 100).toFixed(2)), 0 when total is 0: the rate in
\* hundredths of a percent, as the double arithmetic of the code rounds it
\* (0 / total is 0, and so are its product and its rate)
Percent(x, total) ==
    IF total = 0 \/ x = 0
    THEN 0
    ELSE ToFixed2(Times100(Divide(x, total)))

\* getStats(): the counters, the two rates and totalRequests
GetStatsReport(st) ==
    [hits |-> st.hits, misses |-> st.misses, sets |-> st.sets,
     deletes |-> st.deletes, evictions |-> st.evictions, expires |-> st.expires,
     hitRate |-> Percent(st.hits, st.hits + st.misses),
     missRate |-> Percent(st.misses, st.hits + st.misses),
     totalRequests |-> st.hits + st.misses]

-----------------------------------------------------------------------------
(* History kept beside the program state *)

\* a call: its name, key and ttl argument (arg), the value it was given (set)
\* or returned (get), what else it returned (ok or n by its type), how it
\* ended, the size of the store when it began and the keys its eviction loop
\* removed
Call(op, k, arg, value, ok, n, status, before, evicted) ==
    [op |-> op, key |-> k, arg |-> arg, value |-> value, ok |-> ok, n |-> n,
     status |-> status, before |-> before, evicted |-> evicted,
     report |-> GetStatsReport(ZeroStats), listed |-> <<>>]

\* a call that answered with a snapshot of the statistics (getStats) or with
\* the keys in Map order (keys)
Answered(call, report, listed) ==
    [call EXCEPT !.report = report, !.listed = listed]

\* key k becomes the newest of history h
Touch(h, k) == Append(SelectSeq(h, LAMBDA x : x # k), k)

\* history h restricted to the keys still in store m
Keep(h, m) == SelectSeq(h, LAMBDA x : MapHas(m, x))

\* the counters stay within the bound of the model
WithinBounds(st) ==
    st.hits + st.misses + st.sets + st.deletes + st.evictions + st.expires <= MaxCount

\* a call can start only when the previous one has ended
Ready == last.status # "looping"

-----------------------------------------------------------------------------
(* Construction *)

Capacities == {Finite(1), Infinity}
EvictCapacities == {Finite(1), Finite(2)}
DefaultTtls == {<<>>, <<0>>}

\* new SimpleCache(options): empty store, zero counters
Constructed(cap, dttl, policy, enable) ==
    /\ store = <<>>
    /\ capacity = cap
    /\ defaultTtl = dttl
    /\ evictionPolicy = policy
    /\ stats = ZeroStats
    /\ statsEnabled = enable
    /\ now = 0
    /\ last = Call("new", NoKey, <<>>, Undefined, FALSE, 0, "returned", 0, {})
    /\ recency = <<>>
    /\ arrival = <<>>

\* caches of every policy, bounded or not, with or without a default TTL
Init ==
    \E cap \in Capacities, dttl \in DefaultTtls, policy \in Policies :
        Constructed(cap, dttl, policy, FALSE)

\* caches that evict, small enough that three keys overflow them
InitEvict ==
    \E cap \in EvictCapacities, policy \in Policies \ {"none"} :
        Constructed(cap, <<>>, policy, FALSE)

\* caches of capacity one that count their calls
InitStats ==
    \E policy \in Policies : Constructed(Finite(1), <<>>, policy, TRUE)

\* totals of requests: few, and those at which a rate can fall halfway between
\* two hundredths
RateTotals == {2, 3, 160, 320}

\* lru caches of capacity one that count their calls and have been in use:
\* after set("a", "v1"), hits gets of "a" and at least one get of "b", the
\* last call
InitRates ==
    \E total \in RateTotals :
        \E hits \in 0..(total - 1) :
            /\ capacity = Finite(1)
            /\ defaultTtl = <<>>
            /\ evictionPolicy = "lru"
            /\ store = SetInsert(<<>>, "a", "v1", SetExpiry(<<>>, 0))
            /\ stats = [ZeroStats EXCEPT !.sets = 1, !.hits = hits,
                                         !.misses = total - hits]
            /\ statsEnabled = TRUE
            /\ now = 0
            /\ last = Call("get", "b", <<>>, Undefined, FALSE, 0, "returned", 1, {})
            /\ recency = <<"a">>
            /\ arrival = <<"a">>

\* caches of capacity two that count their calls: two keys fit, so the order
\* of the Map can be observed
InitCounted ==
    \E policy \in Policies : Constructed(Finite(2), <<>>, policy, TRUE)

\* caches of every policy, bounded or not, that are also read with size and ttl
InitRead ==
    \E cap \in Capacities, policy \in Policies :
        Constructed(cap, <<>>, policy, FALSE)

\* caches of capacity one that count their calls and whose statistics are
\* switched off and on; the policies with a fixed victim
InitToggle ==
    \E policy \in {"lru", "fifo", "none"} : Constructed(Finite(1), <<>>, policy, TRUE)

\* caches that count their calls from their creation, small enough that three
\* keys overflow them
InitConserve ==
    \E cap \in EvictCapacities, policy \in Policies :
        Constructed(cap, <<>>, policy, TRUE)

\* the constructor takes any number as capacity: caches of capacity one, zero
\* and below zero
AnyCapacities == {Finite(0 - 1), Finite(0), Finite(1)}

InitAnyCapacity ==
    \E cap \in AnyCapacities, policy \in Policies :
        Constructed(cap, <<>>, policy, FALSE)

-----------------------------------------------------------------------------
(* The public methods *)

Set(k, v, ttl) ==
    /\ Ready
    /\ \E o \in SetOutcomes(store, stats, k, v, ttl, now) :
          /\ WithinBounds(o.stats)
          /\ store' = o.store
          /\ stats' = o.stats
          /\ last' = Call("set", k, ttl, v, FALSE, 0, o.status, Len(store),
                          KeySet(SetInsert(store, k, v, SetExpiry(ttl, now)))
                              \ KeySet(o.store))
          /\ recency' = Keep(Touch(recency, k), o.store)
          /\ arrival' = Keep(Touch(arrival, k), o.store)
    /\ UNCHANGED <<config, statsEnabled, now>>

Get(k) ==
    /\ Ready
    /\ LET o == GetOutcome(store, stats, k, now)
       IN  /\ WithinBounds(o.stats)
           /\ store' = o.store
           /\ stats' = o.stats
           /\ last' = Call("get", k, <<>>, o.value, FALSE, 0, "returned", Len(store), {})
           /\ recency' = Keep(IF MapHas(o.store, k) THEN Touch(recency, k) ELSE recency,
                              o.store)
           /\ arrival' = Keep(arrival, o.store)
    /\ UNCHANGED <<config, statsEnabled, now>>

Has(k) ==
    /\ Ready
    /\ LET o == HasOutcome(store, stats, k, now)
       IN  /\ WithinBounds(o.stats)
           /\ store' = o.store
           /\ stats' = o.stats
           /\ last' = Call("has", k, <<>>, Undefined, o.ok, 0, "returned", Len(store), {})
           /\ recency' = Keep(recency, o.store)
           /\ arrival' = Keep(arrival, o.store)
    /\ UNCHANGED <<config, statsEnabled, now>>

Delete(k) ==
    /\ Ready
    /\ LET o == DeleteOutcome(store, stats, k)
       IN  /\ WithinBounds(o.stats)
           /\ store' = o.store
           /\ stats' = o.stats
           /\ last' = Call("delete", k, <<>>, Undefined, o.ok, 0, "returned", Len(store), {})
           /\ recency' = Keep(recency, o.store)
           /\ arrival' = Keep(arrival, o.store)
    /\ UNCHANGED <<config, statsEnabled, now>>

\* a clear that removes only the oldest entry
ClearOldest ==
    /\ Ready
    /\ store' = IF store = <<>> THEN store ELSE Tail(store)
    /\ stats' = ClearStats(stats)
    /\ last' = Call("clear", NoKey, <<>>, Undefined, FALSE, 0, "returned", Len(store), {})
    /\ recency' = Keep(recency, IF store = <<>> THEN store ELSE Tail(store))
    /\ arrival' = Keep(arrival, IF store = <<>> THEN store ELSE Tail(store))
    /\ UNCHANGED <<config, statsEnabled, now>>

Clear ==
    /\ Ready
    /\ store' = <<>>
    /\ stats' = ClearStats(stats)
    /\ last' = Call("clear", NoKey, <<>>, Undefined, FALSE, 0, "returned", Len(store), {})
    /\ recency' = <<>>
    /\ arrival' = <<>>
    /\ UNCHANGED <<config, statsEnabled, now>>

Size ==
    /\ Ready
    /\ last' = Call("size", NoKey, <<>>, Undefined, FALSE, Len(store), "returned", Len(store), {})
    /\ UNCHANGED <<store, config, stats, statsEnabled, now, recency, arrival>>

Ttl(k) ==
    /\ Ready
    /\ last' = Call("ttl", k, <<>>, Undefined, FALSE, TtlResult(store, k, now),
                     "returned", Len(store), {})
    /\ UNCHANGED <<store, config, stats, statsEnabled, now, recency, arrival>>

Expire(k, ttl) ==
    /\ Ready
    /\ LET o == ExpireOutcome(store, k, ttl, now)
       IN  /\ store' = o.store
           /\ last' = Call("expire", k, <<ttl>>, Undefined, o.ok, 0, "returned", Len(store), {})
    /\ UNCHANGED <<config, stats, statsEnabled, now, recency, arrival>>

Persist(k) ==
    /\ Ready
    /\ LET o == PersistOutcome(store, k)
       IN  /\ store' = o.store
           /\ last' = Call("persist", k, <<>>, Undefined, o.ok, 0, "returned", Len(store), {})
    /\ UNCHANGED <<config, stats, statsEnabled, now, recency, arrival>>

\* a resetStats that does nothing while statistics are disabled
ResetStatsWhenEnabled ==
    /\ Ready
    /\ stats' = IF statsEnabled THEN ZeroStats ELSE stats
    /\ last' = Call("resetStats", NoKey, <<>>, Undefined, FALSE, 0, "returned", Len(store), {})
    /\ UNCHANGED <<store, config, statsEnabled, now, recency, arrival>>

ResetStats ==
    /\ Ready
    /\ stats' = ZeroStats
    /\ last' = Call("resetStats", NoKey, <<>>, Undefined, FALSE, 0, "returned", Len(store), {})
    /\ UNCHANGED <<store, config, statsEnabled, now, recency, arrival>>

EnableStats ==
    /\ Ready
    /\ statsEnabled' = TRUE
    /\ last' = Call("enableStats", NoKey, <<>>, Undefined, FALSE, 0, "returned", Len(store), {})
    /\ UNCHANGED <<store, config, stats, now, recency, arrival>>

DisableStats ==
    /\ Ready
    /\ statsEnabled' = FALSE
    /\ last' = Call("disableStats", NoKey, <<>>, Undefined, FALSE, 0, "returned", Len(store), {})
    /\ UNCHANGED <<store, config, stats, now, recency, arrival>>

\* keys(): the keys in the order of the Map
KeysCall ==
    /\ Ready
    /\ last' = Answered(Call("keys", NoKey, <<>>, Undefined, FALSE, 0, "returned",
                              Len(store), {}),
                         GetStatsReport(ZeroStats), MapKeys(store))
    /\ UNCHANGED <<store, config, stats, statsEnabled, now, recency, arrival>>

GetStats ==
    /\ Ready
    /\ last' = Answered(Call("getStats", NoKey, <<>>, Undefined, FALSE, 0, "returned",
                              Len(store), {}),
                         GetStatsReport(stats), <<>>)
    /\ UNCHANGED <<store, config, stats, statsEnabled, now, recency, arrival>>

IsStatsEnabled ==
    /\ Ready
    /\ last' = Call("isStatsEnabled", NoKey, <<>>, Undefined, statsEnabled, 0,
                     "returned", Len(store), {})
    /\ UNCHANGED <<store, config, stats, statsEnabled, now, recency, arrival>>

\* a clock whose advance sweeps the entries that have expired out of the store
TickSweeps ==
    /\ Ready
    /\ now < MaxTime
    /\ now' = now + 1
    /\ store' = SelectSeq(store, LAMBDA e : ~IsExpired(e, now + 1))
    /\ last' = Call("tick", NoKey, <<>>, Undefined, FALSE, 0, "returned", Len(store), {})
    /\ recency' = Keep(recency, SelectSeq(store, LAMBDA e : ~IsExpired(e, now + 1)))
    /\ arrival' = Keep(arrival, SelectSeq(store, LAMBDA e : ~IsExpired(e, now + 1)))
    /\ UNCHANGED <<config, stats, statsEnabled>>

\* the clock moves on between two calls
Tick ==
    /\ Ready
    /\ now < MaxTime
    /\ now' = now + 1
    /\ last' = Call("tick", NoKey, <<>>, Undefined, FALSE, 0, "returned", Len(store), {})
    /\ UNCHANGED <<store, config, stats, statsEnabled, recency, arrival>>

\* the calls that can change the cache, with keys drawn from K, values from V,
\* ttl arguments of set from T and ttl arguments of expire from E
CallsWith(K, V, T, E) ==
    \/ \E k \in K, v \in V, ttl \in T : Set(k, v, ttl)
    \/ \E k \in K : Get(k)
    \/ \E k \in K : Has(k)
    \/ \E k \in K : Delete(k)
    \/ Clear
    \/ \E k \in K, ttl \in E : Expire(k, ttl)
    \/ \E k \in K : Persist(k)
    \/ Tick

Calls(K, V, T) == CallsWith(K, V, T, ExpireArgs)

\* the calls that only read it
Reads(K) ==
    \/ Size
    \/ \E k \in K : Ttl(k)

\* every call that only reads
Observers(K) ==
    \/ Reads(K)
    \/ KeysCall
    \/ GetStats
    \/ IsStatsEnabled

\* switching the statistics on and off
Toggles ==
    \/ EnableStats
    \/ DisableStats

Next == Calls(Keys, Values, TtlArgs)

NextStats == Calls(StatKeys, StatValues, StatTtlArgs) \/ ResetStats

NextToggle ==
    \/ CallsWith(StatKeys, StatValues, StatTtlArgs, ToggleExpireArgs)
    \/ ResetStats
    \/ Toggles

NextReport == NextStats \/ Observers(StatKeys)

NextEvict == Calls(EvictKeys, EvictValues, TtlArgs)

NextRead == Calls(Keys, EvictValues, TtlArgs) \/ Reads(Keys)

\* the calls of a cache on which clear, resetStats and disableStats are never
\* called
NextConserve ==
    \/ \E k \in EvictKeys, v \in StatValues, ttl \in StatTtlArgs : Set(k, v, ttl)
    \/ \E k \in EvictKeys : Get(k)
    \/ \E k \in EvictKeys : Has(k)
    \/ \E k \in EvictKeys : Delete(k)
    \/ \E k \in EvictKeys, ttl \in ToggleExpireArgs : Expire(k, ttl)
    \/ \E k \in EvictKeys : Persist(k)
    \/ Tick

Spec == Init /\ [][Next]_vars

SpecEvict == InitEvict /\ [][NextEvict]_vars

SpecStats == InitStats /\ [][NextStats]_vars

SpecToggle == InitToggle /\ [][NextToggle]_vars

SpecConserve == InitConserve /\ [][NextConserve]_vars

SpecAnyCapacity == InitAnyCapacity /\ [][Next]_vars

SpecReport == InitStats /\ [][NextReport]_vars

\* the calls that count a request, report or reset the counters
NextRates ==
    \/ \E k \in StatKeys : Get(k)
    \/ ResetStats
    \/ Observers(StatKeys)

\* caches that have been in use, their counters read, reset and counted on
SpecRates == InitRates /\ [][NextRates]_vars

SpecCounted == InitCounted /\ [][NextStats]_vars

SpecRead == InitRead /\ [][NextRead]_vars

-----------------------------------------------------------------------------
(* Steps, as the claims speak of them: last' names the call a step makes *)

\* the expiry the documentation gives an entry set at time t: now + ttl when a
\* ttl is passed, else now + default when one is configured, else none
DocumentedExpiry(ttl, t) ==
    CASE ttl # <<>> -> <<t + ttl[1]>>
      [] ttl = <<>> /\ defaultTtl # <<>> -> <<t + defaultTtl[1]>>
      [] OTHER -> <<>>

\* the entry of key k has an expiry and the clock is strictly past it
Passed(m, k, t) == MapGet(m, k).expiry # <<>> /\ t > MapGet(m, k).expiry[1]

-----------------------------------------------------------------------------
(* Capacity *)

\* C1: under lru, fifo and random with a capacity of at least one, the store
\* never holds more than capacity entries once a public call has returned,
\* whatever sequence of set, get, has, delete, clear, expire, persist and
\* clock advances led there.
CapacityInvariant == ~Exceeds(Len(store), capacity)

\* a set that found the store full and evicted to make room
CapacityWitness ==
    /\ last.op = "set"
    /\ capacity = Finite(last.before)
    /\ last.evicted # {}
    /\ capacity = Finite(Len(store))

\* C2: under policy none, a set of a key that is not stored, into a store that
\* holds exactly capacity entries, raises "Cache capacity reached", removes no
\* existing entry, and leaves the evictions counter at 0.
NoneRejects ==
    [][(/\ evictionPolicy = "none"
        /\ last'.op = "set"
        /\ ~MapHas(store, last'.key)
        /\ capacity = Finite(Len(store)))
          => /\ last'.status = "threw"
             /\ \A i \in 1..Len(store) : store'[i] = store[i]
             /\ stats.evictions = 0
             /\ stats'.evictions = 0]_vars

\* a full store under policy none has just rejected a new key
NoneRejectsWitness ==
    /\ evictionPolicy = "none"
    /\ statsEnabled
    /\ last.op = "set"
    /\ last.status = "threw"
    /\ capacity = Finite(last.before)
    /\ stats.evictions = 0

\* C3: under policy none, a set that raises leaves the store exactly as it was
\* before the call: the rejected key is not retained, every stored key is
\* still present, and the size is at most the capacity.
NoneRejectLeavesStore ==
    [][(last'.op = "set" /\ last'.status = "threw")
          => (store' = store /\ ~Exceeds(Len(store'), capacity))]_vars

-----------------------------------------------------------------------------
(* Eviction order *)

\* C4: under lru, whenever a set evicts, the victim is the stored key whose
\* most recent use is the oldest, a use being a set of the key or a get that
\* returned its value (has, expire, persist and the clock are not uses).
\* recency lists the stored keys by their most recent use, so the victim is
\* the head of recency once the key being set has become the newest.
LruVictim ==
    [][(evictionPolicy = "lru" /\ last'.op = "set" /\ last'.evicted # {})
          => last'.evicted = {Head(Touch(recency, last'.key))}]_vars

\* capacity 2: set(a); set(b); get(a); set(c) has evicted b and kept a
LruVictimWitness ==
    /\ evictionPolicy = "lru"
    /\ capacity = Finite(2)
    /\ last.op = "set"
    /\ last.key = "c"
    /\ last.evicted = {"b"}
    /\ MapKeys(store) = <<"a", "c">>
    /\ arrival = <<"a", "c">>

\* C5: under fifo, whenever a set evicts, the victim is the stored key whose
\* most recent set is the oldest (the head of arrival once the key being set
\* has become the newest), and a get never reorders the keys that stay
\* stored, so it never changes which of them is evicted next.
FifoVictim ==
    [][evictionPolicy = "fifo"
          => /\ (last'.op = "set" /\ last'.evicted # {})
                   => last'.evicted = {Head(Touch(arrival, last'.key))}
             /\ last'.op = "get"
                   => MapKeys(store') = Keep(MapKeys(store), store')]_vars

\* capacity 2: set(a); set(b); set(c) has evicted a and kept b
FifoVictimWitness ==
    /\ evictionPolicy = "fifo"
    /\ capacity = Finite(2)
    /\ last.op = "set"
    /\ last.key = "c"
    /\ last.before = 2
    /\ last.evicted = {"a"}
    /\ MapKeys(store) = <<"b", "c">>

-----------------------------------------------------------------------------
(* Overwrite *)

\* C6: for every policy, a set on a key that is already stored replaces its
\* value and expiry and moves the key to the end of the iteration order; when
\* the store was within capacity before the call, the size is unchanged,
\* nothing is evicted and the other entries keep their order.
OverwriteMovesToEnd ==
    [][(last'.op = "set" /\ MapHas(store, last'.key))
          => /\ store'[Len(store')] =
                   [key |-> last'.key, value |-> last'.value,
                    expiry |-> DocumentedExpiry(last'.arg, now)]
             /\ ~Exceeds(Len(store), capacity)
                   => /\ Len(store') = Len(store)
                      /\ last'.evicted = {}
                      /\ last'.status = "returned"
                      /\ SubSeq(store', 1, Len(store') - 1)
                            = MapDelete(store, last'.key)]_vars

\* the older of two stored keys has been overwritten with a new value and is
\* now the newer one
OverwriteWitness ==
    /\ last.op = "set"
    /\ last.status = "returned"
    /\ last.before = 2
    /\ Len(store) = 2
    /\ store[2].key = last.key
    /\ store[2].value = "v2"
    /\ last.evicted = {}

-----------------------------------------------------------------------------
(* Time to live *)

\* C7: an entry stored at time t with effective ttl T >= 0 has the expiry
\* t + T, keeps it while no set, expire or persist touches the key, and a get
\* returns its value at every time <= t + T and absent at every time > t + T.
TtlWindow ==
    [][/\ (/\ last'.op = "set"
           /\ MapHas(store', last'.key)
           /\ DocumentedExpiry(last'.arg, now) # <<>>
           /\ DocumentedExpiry(last'.arg, now)[1] >= now)
             => MapGet(store', last'.key).expiry = <<DocumentedExpiry(last'.arg, now)[1]>>
       /\ \A k \in Keys :
             (/\ MapHas(store, k)
              /\ MapHas(store', k)
              /\ ~(last'.key = k /\ last'.op \in {"set", "expire", "persist"}))
             => MapGet(store', k) = MapGet(store, k)
       /\ (/\ last'.op = "get"
           /\ MapHas(store, last'.key)
           /\ MapGet(store, last'.key).expiry # <<>>)
             => IF now <= MapGet(store, last'.key).expiry[1]
                THEN last'.value = MapGet(store, last'.key).value
                ELSE last'.value = Undefined /\ ~MapHas(store', last'.key)]_vars

\* a get at exactly the expiry time has returned the value
TtlWindowWitness ==
    /\ last.op = "get"
    /\ last.value # Undefined
    /\ now > 0
    /\ MapGet(store, last.key).expiry = <<now>>

\* C8: the expiry set gives an entry is now + ttl when a ttl argument is
\* passed, even with a default TTL configured; otherwise now + defaultTtl
\* when a default is configured; otherwise none.
SetExpiryPrecedence ==
    [][(last'.op = "set" /\ MapHas(store', last'.key))
          => MapGet(store', last'.key).expiry = DocumentedExpiry(last'.arg, now)]_vars

\* with a default TTL configured, a set with a longer explicit ttl
SetExpiryWitness ==
    /\ defaultTtl # <<>>
    /\ last.op = "set"
    /\ last.arg # <<>>
    /\ last.arg[1] > defaultTtl[1]
    /\ MapHas(store, last.key)
    /\ MapGet(store, last.key).expiry = <<now + last.arg[1]>>

\* C9: a get on a stored entry whose expiry has passed removes it, returns
\* absent, and counts one expiry and one miss and no hit; the key then stays
\* out of the store until it is set again, and a get or has on a key that is
\* not stored leaves the expires counter alone.
ExpiredGet ==
    [][/\ (/\ last'.op = "get"
           /\ MapHas(store, last'.key)
           /\ Passed(store, last'.key, now))
             => /\ ~MapHas(store', last'.key)
                /\ Len(store') = Len(store) - 1
                /\ last'.value = Undefined
                /\ stats'.expires = stats.expires + 1
                /\ stats'.misses = stats.misses + 1
                /\ stats'.hits = stats.hits
       /\ \A k \in StatKeys :
             (~MapHas(store, k) /\ MapHas(store', k))
             => (last'.op = "set" /\ last'.key = k)
       /\ (last'.op \in {"get", "has"} /\ ~MapHas(store, last'.key))
             => stats'.expires = stats.expires]_vars

\* one expired entry has been read: one expiry, one miss, no hit
ExpiredGetWitness ==
    /\ statsEnabled
    /\ last.op = "get"
    /\ last.value = Undefined
    /\ last.before = Len(store) + 1
    /\ stats.expires = 1
    /\ stats.misses = 1
    /\ stats.hits = 0

\* C10: under lru, fifo and none, with a capacity of at least one or none at
\* all, when set(k, v) with no ttl or a ttl >= 0 returns normally, a get(k)
\* made before the clock moves returns v.
ReadYourWrite ==
    [][(/\ evictionPolicy \in {"lru", "fifo", "none"}
        /\ last'.op = "set"
        /\ last'.status = "returned"
        /\ last'.arg = <<>> \/ last'.arg[1] >= 0)
          => GetOutcome(store', stats', last'.key, now').value = last'.value]_vars

\* a set with ttl 0 into a full store of capacity one has returned
ReadYourWriteWitness ==
    /\ evictionPolicy \in {"lru", "fifo"}
    /\ capacity = Finite(1)
    /\ last.op = "set"
    /\ last.arg = <<0>>
    /\ last.status = "returned"
    /\ last.before = 1
    /\ last.evicted # {}
    /\ MapHas(store, last.key)

-----------------------------------------------------------------------------
(* Random eviction *)

\* C11: under random, when a set of a new key pushes the store over capacity,
\* the evicted key is one of the keys stored before the call: the key being
\* set is never the victim and is present once set has returned.
RandomSparesNewKey ==
    [][(/\ evictionPolicy = "random"
        /\ last'.op = "set"
        /\ ~MapHas(store, last'.key)
        /\ last'.evicted # {})
          => /\ last'.evicted \subseteq KeySet(store)
             /\ MapHas(store', last'.key)]_vars

-----------------------------------------------------------------------------
(* One victim per overflowing set *)

\* C12: under lru, fifo and random with a capacity of at least one and
\* statistics enabled, a set that adds a new key to a store holding exactly
\* capacity entries removes exactly one entry, one of the keys in the store at
\* the moment of the eviction, and raises evictions by exactly one; any other
\* set removes no entry and leaves evictions unchanged.
OneVictimPerOverflow ==
    [][(/\ evictionPolicy \in {"lru", "fifo", "random"}
        /\ capacity.finite /\ capacity.n >= 1
        /\ statsEnabled
        /\ last'.op = "set")
          => IF ~MapHas(store, last'.key) /\ capacity = Finite(Len(store))
             THEN /\ Cardinality(last'.evicted) = 1
                  /\ last'.evicted \subseteq (KeySet(store) \cup {last'.key})
                  /\ KeySet(store') = (KeySet(store) \cup {last'.key}) \ last'.evicted
                  /\ Len(store') = Len(store)
                  /\ stats'.evictions = stats.evictions + 1
             ELSE /\ last'.evicted = {}
                  /\ KeySet(store') = KeySet(store) \cup {last'.key}
                  /\ stats'.evictions = stats.evictions]_vars

\* a set of a new key into a full store has evicted one key and counted it
OneVictimWitness ==
    /\ evictionPolicy \in {"lru", "fifo", "random"}
    /\ statsEnabled
    /\ last.op = "set"
    /\ capacity = Finite(last.before)
    /\ Cardinality(last.evicted) = 1
    /\ stats.evictions = 1
    /\ capacity = Finite(Len(store))

-----------------------------------------------------------------------------
(* has *)

\* C13: has(key) returns true exactly when the key is stored and not expired;
\* on a stored expired entry it removes the entry and raises expires by one;
\* it never changes the order of the keys that stay (under lru too, so the
\* oldest key is still the first to be evicted) and never changes hits or
\* misses.
HasFrame ==
    [][(last'.op = "has")
          => LET k == last'.key
                 stale == MapHas(store, k) /\ Passed(store, k, now)
             IN  /\ last'.ok = (MapHas(store, k) /\ ~stale)
                 /\ IF stale
                    THEN /\ ~MapHas(store', k)
                         /\ KeySet(store') = KeySet(store) \ {k}
                         /\ stats'.expires = stats.expires + 1
                    ELSE /\ store' = store
                         /\ stats'.expires = stats.expires
                 /\ MapKeys(store') = SelectSeq(MapKeys(store), LAMBDA x : MapHas(store', x))
                 /\ store # <<>> /\ FirstKey(store) # k => FirstKey(store') = FirstKey(store)
                 /\ stats'.hits = stats.hits
                 /\ stats'.misses = stats.misses]_vars

\* under lru, has has answered true for the oldest of two keys, which is still
\* the oldest
HasFrameWitness ==
    /\ evictionPolicy = "lru"
    /\ statsEnabled
    /\ last.op = "has"
    /\ last.ok
    /\ Len(store) = 2
    /\ store[1].key = last.key

-----------------------------------------------------------------------------
(* delete *)

\* C14: delete(key) returns true exactly when it removed a live entry (stored
\* and not expired at the time of the call), and deletes rises by one exactly
\* on those calls; on a key that is not live it returns false and leaves
\* deletes unchanged.
DeleteLiveOnly ==
    [][(statsEnabled /\ last'.op = "delete")
          => LET k == last'.key
                 live == MapHas(store, k) /\ ~Passed(store, k, now)
             IN  /\ last'.ok = live
                 /\ stats'.deletes = stats.deletes + (IF live THEN 1 ELSE 0)]_vars

-----------------------------------------------------------------------------
(* ttl *)

\* the remaining time the documentation gives a stored key with an expiry
Remaining(m, k, t) ==
    IF MapGet(m, k).expiry[1] - t > 0 THEN MapGet(m, k).expiry[1] - t ELSE 0

\* C15: ttl(key) returns -2 exactly when the key is not in the store, -1
\* exactly when the key is stored with no expiry, and otherwise
\* max(0, expiry - now); the result is never negative other than these two
\* sentinels, and ttl changes neither the store nor any counter.
TtlSentinels ==
    [][(last'.op = "ttl")
          => LET k == last'.key
             IN  /\ last'.n = (IF ~MapHas(store, k) THEN 0 - 2
                               ELSE IF MapGet(store, k).expiry = <<>> THEN 0 - 1
                               ELSE Remaining(store, k, now))
                 /\ last'.n >= 0 - 2
                 /\ store' = store
                 /\ stats' = stats]_vars

\* C16: for a stored key with an expiry, and with no set, expire or persist on
\* that key in between, the results of ttl(key) are non-negative, and from one
\* call to the next they do not increase as the clock advances, as long as the
\* entry is stored.
TtlNonIncreasing ==
    [][\A k \in Keys :
          /\ (last'.op = "ttl" /\ last'.key = k
                /\ MapHas(store, k) /\ MapGet(store, k).expiry # <<>>)
                => last'.n >= 0
          /\ (/\ MapHas(store, k) /\ MapGet(store, k).expiry # <<>>
              /\ MapHas(store', k)
              /\ ~(last'.op \in {"set", "expire", "persist"} /\ last'.key = k))
                => /\ TtlResult(store', k, now') >= 0
                   /\ TtlResult(store', k, now') <= TtlResult(store, k, now)]_vars

-----------------------------------------------------------------------------
(* expire and persist *)

\* C17: expire(key, ttl) on a stored key returns true and sets the expiry of
\* that entry to now + ttl, leaving its value, the order of the keys, the size
\* and every counter unchanged; on a key not in the store it returns false and
\* changes nothing.
ExpireFrame ==
    [][(last'.op = "expire")
          => LET k == last'.key
             IN  IF MapHas(store, k)
                 THEN /\ last'.ok
                      /\ MapHas(store', k)
                      /\ MapGet(store', k).expiry = <<now + last'.arg[1]>>
                      /\ MapGet(store', k).value = MapGet(store, k).value
                      /\ MapKeys(store') = MapKeys(store)
                      /\ Len(store') = Len(store)
                      /\ stats' = stats
                 ELSE /\ ~last'.ok
                      /\ store' = store
                      /\ stats' = stats]_vars

\* expire has given the older of two stored keys a new expiry of now + 1
ExpireFrameWitness ==
    /\ statsEnabled
    /\ last.op = "expire"
    /\ last.ok
    /\ last.arg = <<1>>
    /\ Len(store) = 2
    /\ store[1].key = last.key
    /\ store[1].expiry = <<now + 1>>

\* C18: persist(key) on a stored key returns true and clears its expiry; from
\* then on get(key) returns the value at every later clock time, until the
\* next set, expire, delete, clear or eviction of that key; on a key not in the
\* store persist returns false and changes nothing.
PersistHolds ==
    [][/\ (last'.op = "persist")
            => LET k == last'.key
               IN  IF MapHas(store, k)
                   THEN /\ last'.ok
                        /\ MapHas(store', k)
                        /\ MapGet(store', k).expiry = <<>>
                        /\ MapGet(store', k).value = MapGet(store, k).value
                   ELSE /\ ~last'.ok
                        /\ store' = store
                        /\ stats' = stats
       /\ \A k \in Keys :
            (/\ MapHas(store, k)
             /\ MapGet(store, k).expiry = <<>>
             /\ ~(last'.op \in {"set", "expire", "delete"} /\ last'.key = k)
             /\ last'.op # "clear"
             /\ k \notin last'.evicted)
               => /\ MapHas(store', k)
                  /\ MapGet(store', k).expiry = <<>>
                  /\ MapGet(store', k).value = MapGet(store, k).value
                  /\ \A t \in now'..(MaxTime + 1) :
                        GetOutcome(store', stats', k, t).value = MapGet(store, k).value]_vars

\* with a default TTL every set gives an expiry, so an entry without one has
\* been persisted: a later get, after the clock has moved, returns its value
PersistHoldsWitness ==
    /\ defaultTtl # <<>>
    /\ now >= 1
    /\ last.op = "get"
    /\ last.value # Undefined
    /\ MapHas(store, last.key)
    /\ MapGet(store, last.key).expiry = <<>>

-----------------------------------------------------------------------------
(* Keys that are not stored, and clear *)

\* C19: for a key that is not in the store (never set, deleted, evicted or
\* cleared) get returns absent, has false, ttl -2, expire false, persist false
\* and delete false, and none of these calls changes the store; a delete
\* repeated on the absent key returns false again.
AbsentKey ==
    [][(/\ last'.op \in {"get", "has", "ttl", "expire", "persist", "delete"}
        /\ ~MapHas(store, last'.key))
          => /\ store' = store
             /\ last'.op = "get" => last'.value = Undefined
             /\ last'.op \in {"has", "expire", "persist", "delete"} => ~last'.ok
             /\ last'.op = "ttl" => last'.n = 0 - 2
             /\ last'.op = "delete" => ~DeleteOutcome(store', stats', last'.key).ok]_vars

\* ttl has answered -2 for a key that is missing while another key is stored
AbsentKeyWitness ==
    /\ last.op = "ttl"
    /\ last.n = 0 - 2
    /\ ~MapHas(store, last.key)
    /\ store # <<>>

\* C20: clear() removes every entry: after it the size is 0 and has(k) is
\* false for every key, from any reachable state and under every policy; a
\* second clear leaves the size at 0 and the same store and counters.
ClearEmpties ==
    [][(last'.op = "clear")
          => /\ Len(store') = 0
             /\ \A k \in Keys : ~HasOutcome(store', stats', k, now').ok
             /\ ClearStats(stats') = stats']_vars

\* clear has emptied a store of two entries and reset the counters
ClearEmptiesWitness ==
    /\ last.op = "clear"
    /\ last.before = 2
    /\ store = <<>>
    /\ stats = ZeroStats
    /\ statsEnabled

-----------------------------------------------------------------------------
(* Statistics *)

\* the six counters getStats() reports for counters st are all zero
ReportsZero(st) ==
    \A c \in StatNames : GetStatsReport(st)[c] = 0

\* C21: after clear() returns, every counter reported by getStats() (hits,
\* misses, sets, deletes, evictions, expires) is zero, in every reachable state
\* of the cache.
ClearZeroesCounters ==
    [][(last'.op = "clear") => ReportsZero(stats')]_vars

\* C21, amended: after a clear() made while statistics are enabled every
\* counter reported by getStats() is zero; a clear() made while statistics are
\* disabled leaves every counter as it was.
ClearResetsWhenEnabled ==
    [][(last'.op = "clear")
          => IF statsEnabled THEN ReportsZero(stats') ELSE stats' = stats]_vars

\* clear has returned while statistics are disabled and a count recorded
\* before the disable is still there
ClearResetsWitness ==
    /\ last.op = "clear"
    /\ ~statsEnabled
    /\ stats.sets >= 1
    /\ store = <<>>


\* C22: with statistics enabled, every get raises exactly one of hits and
\* misses by one, hits exactly when it returns a value and misses exactly when
\* it returns absent, so totalRequests grows by one with every get and is the
\* number of gets since the last reset; no other operation changes hits or
\* misses (resetStats and clear, the resets, put them back to zero).
GetCountsOnce ==
    [][statsEnabled
          => /\ (last'.op = "get")
                  => /\ IF last'.value # Undefined
                        THEN stats'.hits = stats.hits + 1 /\ stats'.misses = stats.misses
                        ELSE stats'.misses = stats.misses + 1 /\ stats'.hits = stats.hits
                     /\ GetStatsReport(stats').totalRequests
                            = GetStatsReport(stats).totalRequests + 1
             /\ (last'.op \in {"resetStats", "clear"})
                  => GetStatsReport(stats').totalRequests = 0
             /\ (last'.op \notin {"get", "resetStats", "clear"})
                  => stats'.hits = stats.hits /\ stats'.misses = stats.misses]_vars

\* a get has returned absent and was counted as the second miss, beside one hit
GetCountsOnceWitness ==
    /\ statsEnabled
    /\ last.op = "get"
    /\ last.value = Undefined
    /\ stats.hits = 1
    /\ stats.misses = 2

\* C23: with statistics enabled, every set raises sets by exactly one, whether
\* it adds a key or overwrites one, and whether or not it evicts.
SetCountsOnce ==
    [][(statsEnabled /\ last'.op = "set")
          => stats'.sets = stats.sets + 1]_vars

\* a set that overwrote the stored key was counted as the second set
SetCountsOnceWitness ==
    /\ statsEnabled
    /\ last.op = "set"
    /\ last.before = 1
    /\ last.evicted = {}
    /\ last.status = "returned"
    /\ Len(store) = 1
    /\ stats.sets = 2


\* C24: while statistics are disabled no operation other than resetStats and
\* clear changes any counter; disableStats and enableStats themselves leave
\* all counters unchanged, so the counts recorded before a disable are still
\* there after a later enable.
DisabledCountsNothing ==
    [][/\ (~statsEnabled /\ last'.op \notin {"resetStats", "clear"})
            => stats' = stats
       /\ (last'.op \in {"enableStats", "disableStats"})
            => /\ stats' = stats
               /\ GetStatsReport(stats') = GetStatsReport(stats)]_vars

\* a get made while statistics are disabled was not counted, and the set
\* counted before the disable still is
DisabledCountsWitness ==
    /\ ~statsEnabled
    /\ last.op = "get"
    /\ stats.sets = 1
    /\ stats.hits = 0
    /\ stats.misses = 0

\* C25: resetStats() sets all six counters to zero, whether statistics are
\* enabled or disabled, and leaves the store (keys, values, expiries, order)
\* and the enabled flag unchanged.
ResetStatsFrame ==
    [][(last'.op = "resetStats")
          => /\ \A c \in StatNames : stats'[c] = 0
             /\ store' = store
             /\ statsEnabled' = statsEnabled]_vars

\* resetStats has returned while statistics are disabled and the store holds
\* an entry
ResetStatsWitness ==
    /\ last.op = "resetStats"
    /\ ~statsEnabled
    /\ stats = ZeroStats
    /\ store # <<>>


\* rate r, in hundredths of a percent, is 100 * x / total rounded to two
\* decimals: no other hundredth is nearer to it
RoundedPercent(r, x, total) ==
    /\ 2 * (r * total - x * 10000) <= total
    /\ 2 * (x * 10000 - r * total) <= total

\* C26: getStats() reports totalRequests = hits + misses; hitRate = missRate
\* = 0 when totalRequests = 0; otherwise hitRate and missRate are
\* 100 * hits / totalRequests and 100 * misses / totalRequests rounded to two
\* decimals (one hit and one miss give 50 and 50, two hits and one miss give
\* 66.67 and 33.33); getStats changes no state.
GetStatsRates ==
    [][(last'.op = "getStats")
          => LET r == last'.report
             IN  /\ \A c \in StatNames : r[c] = stats[c]
                 /\ r.totalRequests = stats.hits + stats.misses
                 /\ r.totalRequests = 0 => r.hitRate = 0 /\ r.missRate = 0
                 /\ r.totalRequests > 0
                      => /\ RoundedPercent(r.hitRate, stats.hits, r.totalRequests)
                         /\ RoundedPercent(r.missRate, stats.misses, r.totalRequests)
                 /\ (stats.hits = 1 /\ stats.misses = 1)
                      => r.hitRate = 5000 /\ r.missRate = 5000
                 /\ (stats.hits = 2 /\ stats.misses = 1)
                      => r.hitRate = 6667 /\ r.missRate = 3333
                 /\ store' = store
                 /\ stats' = stats
                 /\ statsEnabled' = statsEnabled
                 /\ now' = now]_vars

\* getStats has reported two hits and one miss as 66.67 and 33.33
GetStatsRatesWitness ==
    /\ last.op = "getStats"
    /\ last.report.hits = 2
    /\ last.report.misses = 1
    /\ last.report.totalRequests = 3
    /\ last.report.hitRate = 6667
    /\ last.report.missRate = 3333


\* what a caller can see of the outcomes of a set: the store and how it ended
SetVisible(outcomes) == {<<o.store, o.status>> : o \in outcomes}

\* C27: statistics never influence behaviour. Under lru, fifo and none, two
\* caches in the same store at the same clock value, one with statistics
\* enabled and one disabled, and with any counters, answer every operation
\* with the same result or error and the same next store contents and order;
\* so two caches driven by the same operations and clock values stay equal in
\* everything but their counters, however statistics are toggled.
StatsNeverInfluence ==
    [][(/\ evictionPolicy \in {"lru", "fifo", "none"}
        /\ last'.op \in {"enableStats", "disableStats"}
        /\ statsEnabled' # statsEnabled)
          => /\ store' = store
             /\ \A k \in StatKeys :
                  /\ \A v \in StatValues, ttl \in StatTtlArgs :
                        SetVisible(SetOutcomes(store, stats, k, v, ttl, now))
                          = SetVisible(SetOutcomes(store, ZeroStats, k, v, ttl, now))'
                  /\ LET on == GetOutcome(store, stats, k, now)
                         off == GetOutcome(store, ZeroStats, k, now)'
                     IN  on.store = off.store /\ on.value = off.value
                  /\ LET on == HasOutcome(store, stats, k, now)
                         off == HasOutcome(store, ZeroStats, k, now)'
                     IN  on.store = off.store /\ on.ok = off.ok
                  /\ LET on == DeleteOutcome(store, stats, k)
                         off == DeleteOutcome(store, ZeroStats, k)'
                     IN  on.store = off.store /\ on.ok = off.ok
                  /\ ExpireOutcome(store, k, 0, now) = ExpireOutcome(store, k, 0, now)'
                  /\ PersistOutcome(store, k) = PersistOutcome(store, k)'
                  /\ TtlResult(store, k, now) = TtlResult(store, k, now)']_vars

\* under policy none statistics were switched off on a full store with counts
\* recorded: the next set of a new key raises with statistics on and off
StatsNeverInfluenceWitness ==
    /\ evictionPolicy = "none"
    /\ last.op = "disableStats"
    /\ ~statsEnabled
    /\ capacity = Finite(Len(store))
    /\ stats.sets >= 1

-----------------------------------------------------------------------------
(* Lazy expiry and errors *)

\* C28: expiry is lazy. Advancing the clock alone never changes the store or
\* any counter, and size(), keys(), ttl(), getStats() and isStatsEnabled()
\* change nothing either; an entry whose expiry has passed stays counted by
\* size() and listed by keys() until a get or has on that key, or a delete,
\* overwrite, eviction or clear, removes it.
LazyExpiry ==
    [][/\ (last'.op = "tick") => store' = store /\ stats' = stats
       /\ (last'.op \in {"size", "keys", "ttl", "getStats", "isStatsEnabled"})
            => /\ store' = store
               /\ stats' = stats
               /\ statsEnabled' = statsEnabled
               /\ now' = now
       /\ \A k \in StatKeys :
            (MapHas(store, k) /\ Passed(store, k, now))
              => /\ (last'.op = "size") => last'.n = Len(store) /\ last'.n >= 1
                 /\ (last'.op = "keys")
                      => \E i \in 1..Len(last'.listed) : last'.listed[i] = k
                 /\ (/\ ~(last'.op \in {"get", "has", "delete", "set"} /\ last'.key = k)
                     /\ last'.op # "clear"
                     /\ k \notin last'.evicted)
                      => MapHas(store', k)]_vars

\* size has counted an entry whose expiry has passed
LazyExpiryWitness ==
    /\ last.op = "size"
    /\ last.n = 1
    /\ Len(store) = 1
    /\ Passed(store, store[1].key, now)


\* C29: the only operation that can raise is set under policy none: get, has,
\* delete, clear, size, ttl, expire, persist, keys, getStats and resetStats
\* never raise in any reachable state, and set never raises under lru, fifo or
\* random.
OnlySetUnderNoneRaises ==
    [][(last'.status = "threw")
          => last'.op = "set" /\ evictionPolicy = "none"]_vars

\* under policy none a set has raised and left the store over its capacity;
\* getStats, called in that state, has returned
OnlySetRaisesWitness ==
    /\ evictionPolicy = "none"
    /\ Exceeds(Len(store), capacity)
    /\ last.op = "getStats"
    /\ last.status = "returned"

\* C30: under policy none, a set on a key that is already in the store never
\* raises, in every reachable state of the cache: overwriting does not increase
\* the number of entries.
OverwriteNeverRaises ==
    [][(/\ evictionPolicy = "none"
        /\ last'.op = "set"
        /\ MapHas(store, last'.key))
          => /\ last'.status # "threw"
             /\ Len(store') = Len(store)]_vars

-----------------------------------------------------------------------------
(* Expired entries *)

\* C31: every entry removed by the eviction loop, and counted in evictions,
\* is live, that is not expired, at the moment it is removed; an entry whose
\* expiry has passed is only ever removed as an expiry (a get or has on its
\* key), a delete, an overwrite or a clear.
EvictsOnlyLive ==
    [][\A k \in StatKeys :
          (MapHas(store, k) /\ Passed(store, k, now))
            => /\ k \notin last'.evicted
               /\ ~MapHas(store', k)
                    => \/ last'.op \in {"get", "has", "delete", "set"} /\ last'.key = k
                       \/ last'.op = "clear"]_vars


\* C32: no resurrection. Once the clock is strictly past the expiry of a
\* stored entry, no later get(key) returns the value of that entry and no
\* later has(key) returns true, unless set(key, ...) is called in between; in
\* particular expire and persist on such a key do not make it readable again.
NoResurrection ==
    [][\A k \in Keys :
          (/\ MapHas(store, k)
           /\ Passed(store, k, now)
           /\ ~(last'.op = "set" /\ last'.key = k))
            => /\ (last'.op = "get" /\ last'.key = k) => last'.value = Undefined
               /\ (last'.op = "has" /\ last'.key = k) => ~last'.ok
               /\ \A t \in now'..MaxTime :
                    /\ GetOutcome(store', stats', k, t).value = Undefined
                    /\ ~HasOutcome(store', stats', k, t).ok]_vars


\* C33: check-then-read. If has(key) returns true and the very next cache
\* operation is get(key), that get returns the stored value, however far the
\* clock advances between the two calls.
CheckThenRead ==
    [][(last'.op = "has" /\ last'.ok)
          => \A t \in now'..MaxTime :
                GetOutcome(store', stats', last'.key, t).value
                    = MapGet(store', last'.key).value]_vars

\* C33, amended: if has(key) returns true and the very next cache operation is
\* get(key), that get returns the stored value when the clock at the get is not
\* strictly past the expiry of the entry (always so for an entry without
\* expiry, and when the clock has not advanced between the two calls); when
\* the clock has moved past the expiry in between, the get returns absent.
CheckThenReadInTime ==
    [][(last'.op = "has" /\ last'.ok)
          => /\ MapHas(store', last'.key)
             /\ \A t \in now'..(MaxTime + 1) :
                  LET entry == MapGet(store', last'.key)
                      read == GetOutcome(store', stats', last'.key, t).value
                  IN  IF entry.expiry = <<>> \/ t <= entry.expiry[1]
                      THEN read = entry.value
                      ELSE read = Undefined]_vars

\* has has answered true for an entry at the very time of its expiry: a get at
\* that time returns the value, a get one tick later does not
CheckThenReadWitness ==
    /\ last.op = "has"
    /\ last.ok
    /\ MapHas(store, last.key)
    /\ MapGet(store, last.key).expiry = <<now>>

-----------------------------------------------------------------------------
(* Counters and entries *)

\* C34: counter conservation. For a cache created with statistics enabled on
\* which disableStats, resetStats and clear are never called, every reachable
\* state satisfies 0 <= size() <= sets - deletes - evictions - expires: each
\* counted removal accounts for one entry that a counted set put in.
CounterConservation ==
    statsEnabled
      => /\ 0 <= Len(store)
         /\ Len(store) <= stats.sets - stats.deletes - stats.evictions - stats.expires

\* two sets and one eviction were counted and one entry is stored: the bound
\* is reached
CounterConservationWitness ==
    /\ statsEnabled
    /\ last.op = "set"
    /\ last.evicted # {}
    /\ stats.sets = 2
    /\ stats.evictions = 1
    /\ Len(store) = 1


\* C35: under policy none with statistics enabled, a set that raises leaves
\* every counter unchanged: sets counts only the sets that returned normally.
RaisedSetUncounted ==
    [][(/\ evictionPolicy = "none"
        /\ statsEnabled
        /\ last'.op = "set"
        /\ last'.status = "threw")
          => stats' = stats]_vars

-----------------------------------------------------------------------------
(* Termination of set *)

\* C36: every call to set terminates (returns or raises), for every policy and
\* for every integer capacity the constructor accepts, zero and negative
\* values included: the eviction loop removes an entry on each iteration and
\* stops.
SetTerminates ==
    [][(last'.op = "set") => last'.status \in {"returned", "threw"}]_vars

====
